---- MODULE Spec2Model ----
(***************************************************************************)
(* ABTestProportionsTool (src/ab_test_stats.py): the statistical decision  *)
(* engine of the A/B testing tool, as a state machine over one tool object.*)
(*                                                                         *)
(* Numbers.  Rates are whole percentages, totals are integers.  A test     *)
(* statistic is kept in tenths (z = 1.89 is 18), truncated toward zero; a  *)
(* p-value and alpha are kept in units of 1e-4 (0.05 is 500).             *)
(* A float is a record [c, v]: c is "num" (the value is v), "nan", "inf"   *)
(* or "-inf", the values numpy produces for 0/0, x/0 and sqrt(negative).   *)
(***************************************************************************)
EXTENDS Integers, Sequences, FiniteSets, TLC

VARIABLES data, positive_count, alpha, results, ret, trace

vars == <<data, positive_count, alpha, results, ret, trace>>

(***************************************************************************)
(* Bounds and input domains                                                *)
(***************************************************************************)
MaxRows == 3

Labels == {"A", "B", "C"}

\* the alphabetical order pandas sorts a group index in
LabelOrder == <<"A", "B", "C">>

\* (positive_rate, total) of a row: 50% of 5 (a rounding tie, 2.5), 100% of 4,
\* 50% of 0 (no trials) and 150% of 4 (a rate outside [0,100])
Obs == {<<50, 5>>, <<100, 4>>, <<50, 0>>, <<150, 4>>}

Rows == {[group |-> g, positive_rate |-> o[1], total |-> o[2]] : g \in Labels, o \in Obs}

DataSets == UNION {[1..n -> Rows] : n \in 0..MaxRows}

\* 0.05 (the default) and 0.1936, a value that is also a p-value of the
\* z-test (z = 1.3)
Alphas == {500, 1936}

(***************************************************************************)
(* Floats, Python values                                                   *)
(***************************************************************************)
Num(x) == [c |-> "num", v |-> x]
NaN == [c |-> "nan", v |-> 0]
PosInf == [c |-> "inf", v |-> 0]
NegInf == [c |-> "-inf", v |-> 0]

\* x < a and x > a for a float x and a finite number a: every comparison
\* with nan is False
Less(x, a) == \/ x.c = "-inf"
              \/ x.c = "num" /\ x.v < a

Greater(x, a) == \/ x.c = "inf"
                 \/ x.c = "num" /\ x.v > a

Neg(x) == IF x.c = "num" THEN Num(-x.v)
          ELSE IF x.c = "inf" THEN NegInf
          ELSE IF x.c = "-inf" THEN PosInf ELSE NaN

Abs(x) == IF x < 0 THEN -x ELSE x

RECURSIVE SqrtFrom(_, _)
SqrtFrom(n, r) == IF (r + 1) * (r + 1) > n THEN r ELSE SqrtFrom(n, r + 1)

\* floor of the square root
Isqrt(n) == SqrtFrom(n, 0)

RECURSIVE SumSeq(_)
SumSeq(s) == IF s = <<>> THEN 0 ELSE Head(s) + SumSeq(Tail(s))

RECURSIVE ProdSeq(_)
ProdSeq(s) == IF s = <<>> THEN 1 ELSE Head(s) * ProdSeq(Tail(s))

\* self.results is None, or a value
None == <<>>
Some(x) == <<x>>

\* how a call ends
Return(x) == [kind |-> "return", value |-> x]
Raise(e) == [kind |-> "raise", value |-> e]

\* a DataFrame column that does not exist, and one that does
NoColumn == [present |-> FALSE, values |-> <<>>]
Column(s) == [present |-> TRUE, values |-> s]

(***************************************************************************)
(* pandas and itertools helpers                                            *)
(***************************************************************************)
\* Series.unique(): the distinct labels in order of first appearance
RECURSIVE unique(_)
unique(col) ==
    IF col = <<>> THEN <<>>
    ELSE LET init == unique(SubSeq(col, 1, Len(col) - 1))
             last == col[Len(col)]
         IN IF \E i \in 1..Len(init) : init[i] = last THEN init
            ELSE Append(init, last)

group_col(d) == [i \in 1..Len(d) |-> d[i].group]

total_col(d) == [i \in 1..Len(d) |-> d[i].total]

\* the positions of the rows labelled g, in dataset order
RowsOf(d, g) == SelectSeq([i \in 1..Len(d) |-> i], LAMBDA i : d[i].group = g)

\* the entries of a column at the given positions
Take(col, pos) == [k \in 1..Len(pos) |-> col[pos[k]]]

\* sum of a column over the rows labelled g
GroupSum(d, col, g) == SumSeq(Take(col, RowsOf(d, g)))

\* the index of groupby(...).sum() and of pivot_table(...): the labels, sorted
SortedIndex(d) == SelectSeq(LabelOrder, LAMBDA g : \E i \in 1..Len(d) : d[i].group = g)

\* itertools.combinations(s, 2)
RECURSIVE combinations(_)
combinations(s) ==
    IF Len(s) < 2 THEN <<>>
    ELSE [j \in 1..(Len(s) - 1) |-> <<s[1], s[j + 1]>>] \o combinations(Tail(s))

(***************************************************************************)
(* calculate_counts                                                        *)
(***************************************************************************)
\* numpy round(): half to even, of num/den with den > 0
RoundHalfEven(num, den) ==
    LET q == num \div den
        r == num % den
    IN IF 2 * r < den THEN q
       ELSE IF 2 * r > den THEN q + 1
       ELSE IF q % 2 = 0 THEN q ELSE q + 1

\* mutant: the counts added to the column already there
calculate_counts_accumulate(d, pc) ==
    Column([i \in 1..Len(d) |->
              (IF pc.present THEN pc.values[i] ELSE 0)
                + RoundHalfEven(d[i].positive_rate * d[i].total, 100)])

\* the positive_count column: round((rate / 100) * total).astype(int); pc is the
\* column as it was before the call, which the assignment overwrites
calculate_counts(d, pc) ==
    Column([i \in 1..Len(d) |-> RoundHalfEven(d[i].positive_rate * d[i].total, 100)])

(***************************************************************************)
(* statsmodels proportions_ztest (two samples, two-sided, pooled variance) *)
(***************************************************************************)
\* 2 * norm.sf(z) in units of 1e-4, for z = 0.0, 0.1, ..., 4.0
ZTable == <<10000, 9203, 8415, 7642, 6892, 6171, 5485, 4839, 4237, 3681,
            3173, 2713, 2301, 1936, 1615, 1336, 1096, 891, 719, 574,
            455, 357, 278, 214, 164, 124, 93, 69, 51, 37,
            27, 19, 14, 10, 7, 5, 3, 2, 1, 1, 1>>

\* 2 * norm.sf(|z|) for z a whole number of tenths
NormTail(z) == IF Abs(z) + 1 > Len(ZTable) THEN 0 ELSE ZTable[Abs(z) + 1]

TwoSidedP(z) ==
    IF z.c = "nan" THEN NaN
    ELSE IF z.c \in {"inf", "-inf"} THEN Num(0)
    ELSE Num(NormTail(z.v))

\* the z statistic (c1/n1 - c2/n2) / sqrt(p (1 - p) (1/n1 + 1/n2)), p = C/N,
\* for totals >= 0
zstat(count, nobs) ==
    LET c1 == count[1]
        c2 == count[2]
        n1 == nobs[1]
        n2 == nobs[2]
        C == c1 + c2
        N == n1 + n2
        d == c1 * n2 - c2 * n1
        v == C * (N - C)
    IN IF n1 = 0 \/ n2 = 0 THEN NaN                \* 0/0 in count / nobs
       ELSE IF v < 0 THEN NaN                      \* sqrt of a negative variance
       ELSE IF v = 0 THEN (IF d = 0 THEN NaN ELSE IF d > 0 THEN PosInf ELSE NegInf)
       ELSE LET z == Isqrt((d * d * N * 100) \div (n1 * n2 * v))
            IN Num(IF d < 0 THEN -z ELSE z)

ZResult(z) == [stat |-> z, p |-> TwoSidedP(z)]

proportions_ztest(count, nobs) == ZResult(zstat(count, nobs))

(***************************************************************************)
(* scipy chi2_contingency on a k x 2 table (rows = groups)                 *)
(***************************************************************************)
\* chi2.sf(x, 2) = exp(-x / 2) in units of 1e-4, for x = 0.0, 0.5, ..., 20.0
Chi2Table2 == <<10000, 7788, 6065, 4724, 3679, 2865, 2231, 1738, 1353, 1054,
                821, 639, 498, 388, 302, 235, 183, 143, 111, 87,
                67, 52, 41, 32, 25, 19, 15, 12, 9, 7,
                6, 4, 3, 3, 2, 2, 1, 1, 1, 1, 0>>

RowTotals(observed) == [i \in 1..Len(observed) |-> observed[i][1] + observed[i][2]]

ColTotal(observed, j) == SumSeq([i \in 1..Len(observed) |-> observed[i][j]])

\* the statistic as a fraction <<numerator, denominator>>
\* 2 x 2 with Yates' correction: N (|ad - bc| - N/2)^2 / (R1 R2 C1 C2), and 0
\* when |ad - bc| <= N/2; t is 2 |ad - bc| - N
YatesFraction(t, R, C1, C2) ==
    IF t <= 0 THEN <<0, 1>> ELSE <<t * t * (C1 + C2), 4 * R[1] * R[2] * C1 * C2>>

Chi2Yates(observed, R, C1, C2) ==
    YatesFraction(2 * Abs(observed[1][1] * observed[2][2] - observed[1][2] * observed[2][1])
                    - (C1 + C2), R, C1, C2)

\* sum over the cells of (O - E)^2 / E = sum_i (O_i1 N - R_i C1)^2 / (R_i C1 C2)
PearsonTerm(o, r, C1, C2, P) == (o * (C1 + C2) - r * C1) * (o * (C1 + C2) - r * C1) * (P \div r)

PearsonFraction(observed, R, C1, C2, P) ==
    <<SumSeq([i \in 1..Len(observed) |-> PearsonTerm(observed[i][1], R[i], C1, C2, P)]),
      P * C1 * C2>>

Chi2Pearson(observed, R, C1, C2) == PearsonFraction(observed, R, C1, C2, ProdSeq(R))

\* chi2.sf(x, 1) = 2 * norm.sf(sqrt(x)), for the statistic f[1] / f[2]
Chi2Dof1(f) ==
    [chi2 |-> Num((10 * f[1]) \div f[2]),
     p |-> Num(NormTail(Isqrt((100 * f[1]) \div f[2])))]

\* chi2.sf(x, 2), for the statistic x in tenths
Chi2Dof2(x) ==
    [chi2 |-> Num(x),
     p |-> Num(IF x \div 5 + 1 > Len(Chi2Table2) THEN 0 ELSE Chi2Table2[x \div 5 + 1])]

Tenths(f) == (10 * f[1]) \div f[2]

\* R: the row totals, C1 and C2: the column totals; dof = k - 1 <= 2, as
\* there are three labels
Chi2Margins(observed, R, C1, C2) ==
    IF \E i \in 1..Len(observed) : observed[i][1] < 0 \/ observed[i][2] < 0
    THEN Raise("ValueError: observed must be nonnegative")
    ELSE IF C1 + C2 > 0 /\ (C1 = 0 \/ C2 = 0 \/ \E i \in 1..Len(R) : R[i] = 0)
    THEN Raise("ValueError: expected frequencies has a zero element")
    ELSE IF Len(observed) = 1 THEN Return([chi2 |-> Num(0), p |-> Num(10000)])
    ELSE IF C1 + C2 = 0 THEN Return([chi2 |-> NaN, p |-> NaN])   \* expected is 0/0
    ELSE IF Len(observed) = 2 THEN Return(Chi2Dof1(Chi2Yates(observed, R, C1, C2)))
    ELSE Return(Chi2Dof2(Tenths(Chi2Pearson(observed, R, C1, C2))))

chi2_contingency(observed) ==
    Chi2Margins(observed, RowTotals(observed), ColTotal(observed, 1), ColTotal(observed, 2))

(***************************************************************************)
(* The methods.  Each yields [out, calls]: how the call ends, and the      *)
(* calls it made, in order, with the arguments of the statistical routines.*)
(***************************************************************************)
KeyError == Raise("KeyError: positive_count")

Call(fn, count, nobs) == [fn |-> fn, count |-> count, nobs |-> nobs]

\* x >= a on a float
GreaterEq(x, a) == \/ x.c = "inf"
                   \/ x.c = "num" /\ x.v >= a

\* mutant: the threshold taken as p <= alpha
SignificanceLeq(p, a) == IF Less(p, a) \/ p = Num(a) THEN "significant" ELSE "not significant"

Significance(p, a) == IF Less(p, a) THEN "significant" ELSE "not significant"

\* lines 50-56: the directional label, computed and then overwritten at line 58
Directional(stat, p, a) ==
    IF GreaterEq(p, a) THEN "No significant difference between groups"
    ELSE IF Greater(stat, 0) THEN "first group is significantly greater than second"
    ELSE "second group is significantly greater than first"

\* line 58 assigns significance again: the label it held is dropped
Reassign(old, new) == new

\* lines 50-59, z the outcome of the z-test
TwoGroupsResult(z, a) ==
    [statistic |-> z.stat, p_value |-> z.p,
     significance |-> Reassign(Directional(z.stat, z.p, a), Significance(z.p, a))]

\* lines 48-59
TwoGroupsTest(count, nobs, a) ==
    [out |-> Return(<<"Proportions Z-Test",
                      TwoGroupsResult(proportions_ztest(count, nobs), a)>>),
     calls |-> <<Call("proportions_ztest", count, nobs)>>]

\* mutant: the guard rejects fewer than two labels only
TwoGroupsFewerThanTwo(d, pc, a, groups) ==
    IF Len(groups) < 2
    THEN [out |-> Raise("ValueError: This method is only for two groups"), calls |-> <<>>]
    ELSE IF ~pc.present THEN [out |-> KeyError, calls |-> <<>>]
    ELSE TwoGroupsTest([i \in 1..2 |-> GroupSum(d, pc.values, groups[i])],
                       [i \in 1..2 |-> GroupSum(d, total_col(d), groups[i])], a)

\* mutant: the sums taken in the sorted order of groupby, without .loc[groups]
TwoGroupsSortedOrder(d, pc, a, groups) ==
    IF Len(groups) # 2
    THEN [out |-> Raise("ValueError: This method is only for two groups"), calls |-> <<>>]
    ELSE IF ~pc.present THEN [out |-> KeyError, calls |-> <<>>]
    ELSE TwoGroupsTest([i \in 1..2 |-> GroupSum(d, pc.values, SortedIndex(d)[i])],
                       [i \in 1..2 |-> GroupSum(d, total_col(d), SortedIndex(d)[i])], a)

\* lines 41-46, groups the distinct labels
TwoGroupsOf(d, pc, a, groups) ==
    IF Len(groups) # 2
    THEN [out |-> Raise("ValueError: This method is only for two groups"), calls |-> <<>>]
    ELSE IF ~pc.present THEN [out |-> KeyError, calls |-> <<>>]
    ELSE TwoGroupsTest([i \in 1..2 |-> GroupSum(d, pc.values, groups[i])],
                       [i \in 1..2 |-> GroupSum(d, total_col(d), groups[i])], a)

test_two_groups(d, pc, a) == TwoGroupsOf(d, pc, a, unique(group_col(d)))

\* lines 112-121, z the outcome of the z-test
PairRecord(pair, z, a) ==
    [group1 |-> pair[1], group2 |-> pair[2], statistic |-> z.stat,
     p_value |-> z.p, significance |-> Significance(z.p, a)]

\* mutant: the counts of a pair summed over all rows of each group
PairCountSummed(d, pc, pair, first) ==
    <<GroupSum(d, pc.values, pair[1]), GroupSum(d, pc.values, pair[2])>>

\* lines 100-110: the arguments of a pair's z-test, from the first row of each
\* group; first maps a label to the position of its first row
PairCount(d, pc, pair, first) == <<pc.values[first[pair[1]]], pc.values[first[pair[2]]]>>

PairNobs(d, pair, first) == <<d[first[pair[1]]].total, d[first[pair[2]]].total>>

FirstRow(d) == [g \in {d[i].group : i \in 1..Len(d)} |->
                  CHOOSE i \in 1..Len(d) : d[i].group = g /\ \A j \in 1..(i - 1) : d[j].group # g]

PostHocOf(d, pc, a, pairs, first) ==
    IF pairs # <<>> /\ ~pc.present THEN [out |-> KeyError, calls |-> <<>>]
    ELSE [out |-> Return([k \in 1..Len(pairs) |->
                            PairRecord(pairs[k],
                                       proportions_ztest(PairCount(d, pc, pairs[k], first),
                                                         PairNobs(d, pairs[k], first)), a)]),
          calls |-> [k \in 1..Len(pairs) |->
                       Call("proportions_ztest", PairCount(d, pc, pairs[k], first),
                            PairNobs(d, pairs[k], first))]]

\* mutant: the pairs taken over the sorted labels
post_hoc_sorted(d, pc, a) ==
    PostHocOf(d, pc, a, combinations(SortedIndex(d)), FirstRow(d))

post_hoc_test(d, pc, a) ==
    PostHocOf(d, pc, a, combinations(unique(group_col(d))), FirstRow(d))

\* lines 71-75: the contingency table, one row <<positive_count, negative_count>>
\* per label, labels sorted, duplicate rows summed
ObservedOf(d, pc, idx) ==
    [k \in 1..Len(idx) |->
       <<GroupSum(d, pc.values, idx[k]),
         GroupSum(d, total_col(d), idx[k]) - GroupSum(d, pc.values, idx[k])>>]

Observed(d, pc) == ObservedOf(d, pc, SortedIndex(d))

\* lines 83-88, ph the outcome of post_hoc_test
AttachPairwise(base, c, ph) ==
    [out |-> Return(<<"Chi-Square Test", base @@ [pairwise |-> ph.out.value]>>),
     calls |-> <<c, Call("post_hoc_test", <<>>, <<>>)>> \o ph.calls]

\* mutant: the pairwise comparisons attached whatever the omnibus test says
MultipleGroupsAlwaysPairwise(d, pc, a, c, t, base) ==
    AttachPairwise(base, c, post_hoc_test(d, pc, a))

\* lines 79-88, t the value chi2_contingency returned
MultipleGroupsResult(d, pc, a, c, t, base) ==
    IF Less(t.p, a) THEN AttachPairwise(base, c, post_hoc_test(d, pc, a))
    ELSE [out |-> Return(<<"Chi-Square Test", base>>), calls |-> <<c>>]

\* lines 78-88, t the outcome of chi2_contingency
MultipleGroupsTest(d, pc, a, c, t) ==
    IF t.kind = "raise" THEN [out |-> t, calls |-> <<c>>]
    ELSE MultipleGroupsResult(d, pc, a, c, t.value,
                              [statistic |-> t.value.chi2, p_value |-> t.value.p,
                               significance |-> Significance(t.value.p, a)])

MultipleGroupsOf(d, pc, a, observed) ==
    MultipleGroupsTest(d, pc, a,
                       Call("chi2_contingency", [k \in 1..Len(observed) |-> observed[k][1]],
                            [k \in 1..Len(observed) |-> observed[k][2]]),
                       chi2_contingency(observed))

test_multiple_groups(d, pc, a) ==
    IF ~pc.present THEN [out |-> KeyError, calls |-> <<>>]
    ELSE MultipleGroupsOf(d, pc, a, Observed(d, pc))

\* lines 139-140, t the outcome of the tester
RunResult(tester, t) ==
    [out |-> IF t.out.kind = "raise" THEN t.out
             ELSE Return([test_used |-> t.out.value[1], results |-> t.out.value[2]]),
     calls |-> <<Call("calculate_counts", <<>>, <<>>), Call(tester, <<>>, <<>>)>> \o t.calls]

\* mutant: one label is sent to the two-group tester as well
DispatchAtMostTwo(d, counts, a, groups) ==
    IF Len(groups) <= 2 THEN RunResult("test_two_groups", test_two_groups(d, counts, a))
    ELSE RunResult("test_multiple_groups", test_multiple_groups(d, counts, a))

\* lines 132-137, counts the column calculate_counts wrote
Dispatch(d, counts, a, groups) ==
    IF Len(groups) = 2 THEN RunResult("test_two_groups", test_two_groups(d, counts, a))
    ELSE RunResult("test_multiple_groups", test_multiple_groups(d, counts, a))

run(d, pc, a) == Dispatch(d, calculate_counts(d, pc), a, unique(group_col(d)))

(***************************************************************************)
(* The tool object                                                         *)
(***************************************************************************)
\* __init__: the caller's frame has no positive_count column yet
Init ==
    /\ data \in DataSets
    /\ alpha \in Alphas
    /\ positive_count = NoColumn
    /\ results = None
    /\ ret = [op |-> "__init__", out |-> Return(<<>>)]
    /\ trace = <<>>

\* pandas on a frame without rows is not modelled for the methods that do
\* arithmetic on its columns
HasRows == data # <<>>

\* what a method call leaves behind: its outcome and the calls it made
Ends(op, t) ==
    /\ ret' = [op |-> op, out |-> t.out]
    /\ trace' = t.calls

CalculateCounts ==
    /\ HasRows
    /\ positive_count' = calculate_counts(data, positive_count)
    /\ ret' = [op |-> "calculate_counts", out |-> Return(<<>>)]
    /\ trace' = <<>>
    /\ UNCHANGED <<data, alpha, results>>

TestTwoGroups ==
    /\ Ends("test_two_groups", test_two_groups(data, positive_count, alpha))
    /\ UNCHANGED <<data, positive_count, alpha, results>>

TestMultipleGroups ==
    /\ HasRows
    /\ Ends("test_multiple_groups", test_multiple_groups(data, positive_count, alpha))
    /\ UNCHANGED <<data, positive_count, alpha, results>>

PostHocTest ==
    /\ Ends("post_hoc_test", post_hoc_test(data, positive_count, alpha))
    /\ UNCHANGED <<data, positive_count, alpha, results>>

\* self.results is assigned only when the tester returned
RunEnds(t) ==
    /\ Ends("run", t)
    /\ results' = IF t.out.kind = "return" THEN Some(t.out.value) ELSE results

Run ==
    /\ HasRows
    /\ positive_count' = calculate_counts(data, positive_count)
    /\ RunEnds(run(data, positive_count, alpha))
    /\ UNCHANGED <<data, alpha>>

Next ==
    \/ CalculateCounts
    \/ TestTwoGroups
    \/ TestMultipleGroups
    \/ PostHocTest
    \/ Run

Spec == Init /\ [][Next]_vars

(***************************************************************************)
(* What the claims speak of, read off the state                            *)
(***************************************************************************)
LabelSet == {data[i].group : i \in 1..Len(data)}

NLabels == Cardinality(LabelSet)

\* the position of the first row labelled g
FirstPos(g) == CHOOSE i \in 1..Len(data) :
                  data[i].group = g /\ \A j \in 1..(i - 1) : data[j].group # g

\* the sum of a column over every row labelled g
LabelTotal(col, g) == SumSeq([i \in 1..Len(data) |-> IF data[i].group = g THEN col[i] ELSE 0])

Returned == ret.out.kind = "return"

\* the last call returned a Test Result (z-test or chi-square)
HasTestResult == Returned /\ ret.op \in {"test_two_groups", "test_multiple_groups", "run"}

TestName == IF ret.op = "run" THEN ret.out.value.test_used ELSE ret.out.value[1]

TestResult == IF ret.op = "run" THEN ret.out.value.results ELSE ret.out.value[2]

\* the last call returned pairwise results
HasPairwise ==
    /\ Returned
    /\ \/ ret.op = "post_hoc_test"
       \/ HasTestResult /\ "pairwise" \in DOMAIN TestResult

Pairwise == IF ret.op = "post_hoc_test" THEN ret.out.value ELSE TestResult.pairwise

\* the z-test calls of the post-hoc step: the last calls of the trace
PairCalls == SubSeq(trace, Len(trace) - Len(Pairwise) + 1, Len(trace))

IsLess(p, a) == p.c = "num" /\ p.v < a

Threshold(r) == r.significance = (IF IsLess(r.p_value, alpha) THEN "significant"
                                  ELSE "not significant")

(***************************************************************************)
(* C1: in every result a call returns (z-test, chi-square, each pairwise   *)
(* result) and in self.results, the label is "significant" exactly when    *)
(* p_value < alpha and "not significant" otherwise, p_value = alpha        *)
(* included; no other label occurs.                                        *)
(***************************************************************************)
C1_ThresholdLaw ==
    /\ HasTestResult => Threshold(TestResult)
    /\ HasPairwise => \A k \in 1..Len(Pairwise) : Threshold(Pairwise[k])
    /\ results # None => Threshold(results[1].results)

\* run() returned a z-test result whose p_value equals alpha, labelled not
\* significant
C1_Witness ==
    /\ ret.op = "run" /\ HasTestResult
    /\ TestName = "Proportions Z-Test"
    /\ TestResult.p_value = Num(alpha)
    /\ TestResult.significance = "not significant"

(***************************************************************************)
(* C2: run() calls calculate_counts first and then exactly one tester:     *)
(* test_two_groups when the dataset has exactly 2 distinct labels,         *)
(* test_multiple_groups for every other count; test_used is                *)
(* "Proportions Z-Test" in the first case, "Chi-Square Test" in the other. *)
(***************************************************************************)
C2_Dispatch ==
    ret.op = "run" =>
      /\ positive_count.present
      /\ Len(trace) >= 2
      /\ trace[1].fn = "calculate_counts"
      /\ trace[2].fn = (IF NLabels = 2 THEN "test_two_groups" ELSE "test_multiple_groups")
      /\ \A k \in 3..Len(trace) : trace[k].fn \notin {"test_two_groups", "test_multiple_groups",
                                                      "calculate_counts"}
      /\ Returned => TestName = (IF NLabels = 2 THEN "Proportions Z-Test"
                                 ELSE "Chi-Square Test")

\* run() returned the chi-square result for a dataset with one label only
C2_Witness ==
    /\ ret.op = "run" /\ Returned
    /\ NLabels = 1
    /\ data[1].total > 0
    /\ TestName = "Chi-Square Test"

(***************************************************************************)
(* C3: a chi-square result carries a pairwise field, and post_hoc_test is  *)
(* called, exactly when the omnibus p_value < alpha; the field then holds  *)
(* n(n-1)/2 results, one for each unordered pair of distinct labels.       *)
(***************************************************************************)
C3_PostHocIffSignificant ==
    (HasTestResult /\ TestName = "Chi-Square Test") =>
      /\ ("pairwise" \in DOMAIN TestResult) <=> IsLess(TestResult.p_value, alpha)
      /\ (\E k \in 1..Len(trace) : trace[k].fn = "post_hoc_test")
            <=> IsLess(TestResult.p_value, alpha)
      /\ ("pairwise" \in DOMAIN TestResult) =>
            /\ 2 * Len(Pairwise) = NLabels * (NLabels - 1)
            /\ \A k \in 1..Len(Pairwise) :
                  {Pairwise[k].group1, Pairwise[k].group2} \subseteq LabelSet
            /\ \A g, h \in LabelSet :
                  g # h => Cardinality({k \in 1..Len(Pairwise) :
                              {Pairwise[k].group1, Pairwise[k].group2} = {g, h}}) = 1

\* run() on three labels returned a significant chi-square result with
\* its three pairwise results
C3_Witness ==
    /\ ret.op = "run" /\ HasPairwise
    /\ NLabels = 3
    /\ Len(Pairwise) = 3

(***************************************************************************)
(* C4: a run() that follows a run() ends as the first did (same result or  *)
(* same error), leaves self.results as it was and writes the same          *)
(* positive_count column, which is round(rate / 100 * total) whatever the  *)
(* column held before.                                                     *)
(***************************************************************************)
C4_RunIdempotent ==
    [][(ret.op = "run" /\ ret'.op = "run") =>
          /\ ret'.out = ret.out
          /\ trace' = trace
          /\ results' = results
          /\ positive_count' = positive_count
          /\ \A i \in 1..Len(data) :
                LET x == data[i].positive_rate * data[i].total
                    c == positive_count'.values[i]
                IN /\ 200 * c - 100 <= 2 * x
                   /\ 2 * x <= 200 * c + 100]_vars

\* run() has returned a result with pairwise results, which self.results
\* holds, over a column with a rounded tie (50% of 5 is 2)
C4_Witness ==
    /\ ret.op = "run" /\ HasPairwise
    /\ results = Some(ret.out.value)
    /\ \E i \in 1..Len(data) :
          data[i].positive_rate * data[i].total = 250 /\ positive_count.values[i] = 2

(***************************************************************************)
(* C5: calculate_counts and run() fail with InvalidInputError when a row   *)
(* has a rate outside [0,100] or a negative total, so that a written       *)
(* positive_count column has 0 <= positive_count <= total in every row.    *)
(***************************************************************************)
InvalidInput == \E i \in 1..Len(data) :
                   \/ data[i].positive_rate < 0
                   \/ data[i].positive_rate > 100
                   \/ data[i].total < 0

C5_RangeChecked ==
    /\ (ret.op \in {"calculate_counts", "run"} /\ InvalidInput) =>
          ret.out = Raise("InvalidInputError")
    /\ positive_count.present =>
          \A i \in 1..Len(data) :
             0 <= positive_count.values[i] /\ positive_count.values[i] <= data[i].total

(***************************************************************************)
(* C6: a run() whose z-test (two-group or post-hoc pair) is handed a group *)
(* with total 0 raises ComputationError and does not set self.results.     *)
(***************************************************************************)
ZeroTotalTested == \E k \in 1..Len(trace) :
                      /\ trace[k].fn = "proportions_ztest"
                      /\ \E j \in 1..2 : trace[k].nobs[j] = 0

C6_ZeroTotalRaises ==
    (ret.op = "run" /\ ZeroTotalTested) =>
       /\ ret.out = Raise("ComputationError")
       /\ results = None

(***************************************************************************)
(* C7: test_two_groups on a dataset whose number of distinct labels is not *)
(* 2 raises the cardinality error, calls nothing, and leaves the dataset,  *)
(* the positive_count column and self.results as they were.                *)
(***************************************************************************)
C7_CardinalityGuard ==
    [][(ret'.op = "test_two_groups" /\ NLabels # 2) =>
          /\ ret'.out = Raise("ValueError: This method is only for two groups")
          /\ trace' = <<>>
          /\ UNCHANGED <<data, positive_count, alpha, results>>]_vars

\* test_two_groups has raised the cardinality error on three labels, with
\* the positive_count column present
C7_Witness ==
    /\ ret.op = "test_two_groups"
    /\ ret.out = Raise("ValueError: This method is only for two groups")
    /\ NLabels = 3
    /\ positive_count.present

(***************************************************************************)
(* C8: test_two_groups hands the z-test the per-label sums over all rows,  *)
(* in first-appearance order of the two labels; on the same rows in any    *)
(* other order it yields the same p_value and label, and the same          *)
(* statistic, negated when the other label comes first.                    *)
(***************************************************************************)
RowOrders(n) == {f \in [1..n -> 1..n] : \A i, j \in 1..n : i # j => f[i] # f[j]}

Permuted(s, f) == [i \in 1..Len(s) |-> s[f[i]]]

OtherLabel(g) == CHOOSE h \in LabelSet : h # g

SwapAgrees(f) ==
    LET d == Permuted(data, f)
        r == test_two_groups(d, Column(Permuted(positive_count.values, f)), alpha).out.value[2]
    IN /\ r.p_value = TestResult.p_value
       /\ r.significance = TestResult.significance
       /\ r.statistic = IF d[1].group = data[1].group THEN TestResult.statistic
                        ELSE Neg(TestResult.statistic)

C8_SwapSymmetry ==
    (ret.op = "test_two_groups" /\ Returned) =>
       /\ trace = <<Call("proportions_ztest",
                         <<LabelTotal(positive_count.values, data[1].group),
                           LabelTotal(positive_count.values, OtherLabel(data[1].group))>>,
                         <<LabelTotal(total_col(data), data[1].group),
                           LabelTotal(total_col(data), OtherLabel(data[1].group))>>)>>
       /\ \A f \in RowOrders(Len(data)) : SwapAgrees(f)

\* test_two_groups returned a nonzero statistic for a dataset where B comes
\* first and A has two rows
C8_Witness ==
    /\ ret.op = "test_two_groups" /\ Returned
    /\ TestResult.statistic.c = "num" /\ TestResult.statistic.v # 0
    /\ Len(data) = 3
    /\ data[1].group = "B" /\ data[2].group = "A" /\ data[3].group = "A"

(***************************************************************************)
(* C9: each pairwise z-test is fed positive_count and total of the first   *)
(* row of each of its two labels, while the chi-square table holds, per    *)
(* label, the sums over all rows of the label.                             *)
(***************************************************************************)
C9_FirstRowOnly ==
    /\ HasPairwise =>
          \A k \in 1..Len(Pairwise) :
             LET r1 == FirstPos(Pairwise[k].group1)
                 r2 == FirstPos(Pairwise[k].group2)
             IN PairCalls[k] = Call("proportions_ztest",
                                    <<positive_count.values[r1], positive_count.values[r2]>>,
                                    <<data[r1].total, data[r2].total>>)
    /\ \A k \in 1..Len(trace) :
          trace[k].fn = "chi2_contingency" =>
             /\ Len(trace[k].count) = NLabels
             /\ \A j \in 1..NLabels :
                   LET g == SortedIndex(data)[j]
                   IN /\ trace[k].count[j] = LabelTotal(positive_count.values, g)
                      /\ trace[k].nobs[j] = LabelTotal(total_col(data), g)
                                              - LabelTotal(positive_count.values, g)

\* a call ran the chi-square test and a pairwise z-test whose count for a
\* label differs from the count the chi-square table holds for that label
C9_Witness ==
    /\ HasPairwise /\ HasTestResult
    /\ \E k \in 1..Len(Pairwise) :
          PairCalls[k].count[1] # LabelTotal(positive_count.values, Pairwise[k].group1)

(***************************************************************************)
(* C10: the pairwise results come in combination order over the labels in  *)
(* first-appearance order: group1 first appears before group2, and the     *)
(* results are sorted by (first row of group1, first row of group2).       *)
(***************************************************************************)
C10_CombinationOrder ==
    HasPairwise =>
       /\ 2 * Len(Pairwise) = NLabels * (NLabels - 1)
       /\ \A k \in 1..Len(Pairwise) :
             FirstPos(Pairwise[k].group1) < FirstPos(Pairwise[k].group2)
       /\ \A k, l \in 1..Len(Pairwise) :
             k < l =>
                \/ FirstPos(Pairwise[k].group1) < FirstPos(Pairwise[l].group1)
                \/ /\ Pairwise[k].group1 = Pairwise[l].group1
                   /\ FirstPos(Pairwise[k].group2) < FirstPos(Pairwise[l].group2)

\* three pairwise results for labels that first appear in the order C, A, B
C10_Witness ==
    /\ HasPairwise
    /\ Len(Pairwise) = 3
    /\ group_col(data) = <<"C", "A", "B">>
    /\ <<Pairwise[1].group1, Pairwise[1].group2>> = <<"C", "A">>
    /\ <<Pairwise[3].group1, Pairwise[3].group2>> = <<"A", "B">>

====
